---- MODULE Spec2Model ----
(***************************************************************************)
(* Movie NFO creator (script.py): the sidecar store (movie.nfo read,       *)
(* create, add playcount, add tag), the title normalisation, the TMDb      *)
(* resolution and the reconciliation loop of __main__.                     *)
(*                                                                         *)
(* Text is a sequence of one-character tokens; "&amp;", "&lt;" and "&gt;"  *)
(* are single tokens standing for the XML entities, "U+2019" for the       *)
(* typographic apostrophe.  A file is a sequence of lines; a line is a     *)
(* record [kind, name, text]:                                              *)
(*   decl  : the XML declaration, name = which writer produced it          *)
(*   open  : <name>           close : </name>                              *)
(*   elem  : <name>text</name>, text as stored in the file (escaped)       *)
(*   text  : a line without markup, text = its tokens (the identity URL)   *)
(*   blank : an empty line                                                 *)
(***************************************************************************)
EXTENDS Integers, Sequences, FiniteSets, TLC

VARIABLES
  files,                    \* folder -> content of its movie.nfo
  lastOp,                   \* the last sidecar-store call: what, where, before, result
  overrideFile,             \* watched_override.csv: its rows, header included
  filepaths,                \* find_mkv_files(ROOT_PATH): the library listing
  letterboxdFile,           \* the file LETTERBOXD_WATCHED_FILES names: its rows
  letterboxd_movies,        \* parse_letterboxd_csv(...), loaded at start
  answers,                  \* what the user types at each kind of prompt
  override_watched_movies,  \* ids loaded from watched_override.csv at start
  run,                      \* how many times the program has been started
  i,                        \* index of the entry of the for loop
  pc,                       \* where __main__ stands
  loc,                      \* locals of the loop body
  missing,                  \* missing tags still to add (the inner for loop)
  call,                     \* the pending provider call
  exc,                      \* the exception that ended the run, "none" otherwise
  diags,                    \* diagnostics printed in this run: <<entry, kind>>
  prompts,                  \* prompts shown in this run: <<entry, kind>>
  history                   \* the files the first run started on, and where the
                            \* previous run stood when it stopped

storeVars == <<files, lastOp>>

worldVars == <<filepaths, letterboxdFile, answers>>

mainVarsButPc == <<overrideFile, letterboxd_movies, override_watched_movies, run, i, loc,
                   missing, call, exc, diags, prompts, history>>

mainVars == <<overrideFile, letterboxd_movies, override_watched_movies, run, i, pc, loc, missing, call,
              exc, diags, prompts, history>>

vars == <<files, lastOp, overrideFile, filepaths, letterboxdFile, letterboxd_movies, answers,
          override_watched_movies, run, i, pc, loc, missing, call, exc,
          diags, prompts, history>>

-----------------------------------------------------------------------------
(* Text *)

\* str.replace(old, new) for one-character old
ReplaceChar(s, old, new) ==
  IF s = <<>> THEN <<>> ELSE [k \in 1..Len(s) |-> IF s[k] = old THEN new ELSE s[k]]

CasefoldChar(c) == IF c = "A" THEN "a" ELSE IF c = "B" THEN "b" ELSE c

\* str.casefold()
Casefold(s) == IF s = <<>> THEN <<>> ELSE [k \in 1..Len(s) |-> CasefoldChar(s[k])]

RECURSIVE LStrip(_)
LStrip(s) == IF s # <<>> /\ Head(s) = " " THEN LStrip(Tail(s)) ELSE s

RECURSIVE RStrip(_)
RStrip(s) ==
  IF s # <<>> /\ s[Len(s)] = " " THEN RStrip(SubSeq(s, 1, Len(s) - 1)) ELSE s

\* str.strip()
Strip(s) == RStrip(LStrip(s))

\* re.sub(r'\s\(.*?\)$', '', s): the leftmost " (" is cut with everything after
\* it when the string ends with ")"
StripParenthetical(s) ==
  LET starts == {p \in 1..(Len(s) - 2) : s[p] = " " /\ s[p + 1] = "("}
  IN IF Len(s) >= 3 /\ s[Len(s)] = ")" /\ starts # {}
       THEN SubSeq(s, 1, (CHOOSE p \in starts : \A q \in starts : p <= q) - 1)
       ELSE s

are_roughly_equals(title_1, title_2) ==
  Casefold(StripParenthetical(ReplaceChar(title_1, ":", "-")))
    = Casefold(StripParenthetical(ReplaceChar(title_2, ":", "-")))

-----------------------------------------------------------------------------
(* XML text: what ElementTree writes and what expat accepts *)

EscapeXmlChar(c) ==
  IF c = "&" THEN "&amp;" ELSE IF c = "<" THEN "&lt;" ELSE IF c = ">" THEN "&gt;" ELSE c

\* ElementTree's escaping of element text on serialisation
EscapeXml(s) == IF s = <<>> THEN <<>> ELSE [k \in 1..Len(s) |-> EscapeXmlChar(s[k])]

UnescapeXmlChar(c) ==
  IF c = "&amp;" THEN "&" ELSE IF c = "&lt;" THEN "<" ELSE IF c = "&gt;" THEN ">" ELSE c

UnescapeXml(s) == IF s = <<>> THEN <<>> ELSE [k \in 1..Len(s) |-> UnescapeXmlChar(s[k])]

\* expat rejects a bare "<" or "&" in character data
WellFormedText(s) == \A k \in 1..Len(s) : s[k] # "<" /\ s[k] # "&"

-----------------------------------------------------------------------------
(* Files and lines *)

Line(kind, name, text) == [kind |-> kind, name |-> name, text |-> text]

NoFile == [exists |-> FALSE, lines |-> <<>>, nl |-> FALSE]

\* nl: whether the last line ends with a newline
File(lines, nl) == [exists |-> TRUE, lines |-> lines, nl |-> nl]

\* "https://www.imdb.com/title/" + imdb_id
ImdbUrl(imdb_id) == <<"https://", "www.", "imdb.com/title/", imdb_id>>

\* tt9 is an id TMDb does not know
ImdbIds == {"tt1", "tt2", "tt9"}

\* an element of the parsed tree: el.text is None when has_text is FALSE
Element(name, text) == [name |-> name, text |-> text, has_text |-> text # <<>>]

NoRoot == [ok |-> FALSE, tag |-> "", children |-> <<>>]

\* ET.fromstring(''.join(lines)): an optional declaration, then one root element
\* holding leaf elements, one per line; blank lines are whitespace
ParseDocument(all_lines) ==
  LET ls == SelectSeq(all_lines, LAMBDA l : l.kind # "blank")
      body == IF ls # <<>> /\ ls[1].kind = "decl" THEN Tail(ls) ELSE ls
      n == Len(body)
      well_formed ==
        /\ n >= 2
        /\ body[1].kind = "open"
        /\ body[n].kind = "close"
        /\ body[n].name = body[1].name
        /\ \A k \in 2..(n - 1) : body[k].kind = "elem" /\ WellFormedText(body[k].text)
  IN IF well_formed
       THEN [ok |-> TRUE, tag |-> body[1].name,
             children |-> IF n = 2 THEN <<>>
                          ELSE [k \in 1..(n - 2) |->
                                  Element(body[k + 1].name, UnescapeXml(body[k + 1].text))]]
       ELSE NoRoot

\* indent_xml(root) then ET.tostring(root) / tree.write: one line per element
SerializeDocument(root) ==
  <<Line("open", root.tag, <<>>)>>
    \o (IF root.children = <<>> THEN <<>>
        ELSE [k \in 1..Len(root.children) |->
                Line("elem", root.children[k].name, EscapeXml(root.children[k].text))])
    \o <<Line("close", root.tag, <<>>)>>

\* root.find(node_name): the index of the first child of that name, 0 for None
FindChild(root, node_name) ==
  LET hits == {k \in 1..Len(root.children) : root.children[k].name = node_name}
  IN IF hits = {} THEN 0 ELSE CHOOSE k \in hits : \A q \in hits : k <= q

\* lines[-1].rstrip('\n') ... .strip(): the last line as it is written back
StripLine(l) == IF l.kind = "text" THEN [l EXCEPT !.text = Strip(@)] ELSE l

AllButLast(ls) == SubSeq(ls, 1, Len(ls) - 1)

-----------------------------------------------------------------------------
(* Sidecar store *)

create_movie_nfo(title, imdb_id, watched) ==
  File(<<Line("decl", "create", <<>>),
         Line("open", "movie", <<>>),
         Line("elem", "title", ReplaceChar(ReplaceChar(title, "&", "&amp;"), "U+2019", "'"))>>
       \o (IF watched THEN <<Line("elem", "playcount", <<"1">>)>> ELSE <<>>)
       \o <<Line("close", "movie", <<>>),
            Line("text", "", ImdbUrl(imdb_id))>>,
       FALSE)

\* add_playcount_to_nfo without the test root.find('playcount') is None
add_playcount_unchecked(f) ==
  LET lines == f.lines
      root == ParseDocument(AllButLast(lines))
      unchanged == [file |-> f, ret |-> FALSE]
  IN IF ~f.exists \/ Len(lines) < 2 THEN unchanged
     ELSE IF ~root.ok \/ root.tag # "movie" THEN unchanged
     ELSE [file |-> File(<<Line("decl", "playcount", <<>>)>>
                           \o SerializeDocument(
                                [root EXCEPT !.children = Append(@, Element("playcount", <<"1">>))])
                           \o <<StripLine(lines[Len(lines)])>>,
                         TRUE),
           ret |-> TRUE]

\* add_playcount_to_nfo building the document anew, as create_movie_nfo does,
\* from the title alone
add_playcount_rebuilding(f) ==
  LET lines == f.lines
      root == ParseDocument(AllButLast(lines))
      unchanged == [file |-> f, ret |-> FALSE]
  IN IF ~f.exists \/ Len(lines) < 2 THEN unchanged
     ELSE IF ~root.ok \/ root.tag # "movie" THEN unchanged
     ELSE IF FindChild(root, "playcount") # 0 THEN unchanged
     ELSE [file |-> File(<<Line("decl", "playcount", <<>>)>>
                           \o SerializeDocument(
                                [root EXCEPT !.children =
                                   Append(SelectSeq(@, LAMBDA el : el.name = "title"),
                                          Element("playcount", <<"1">>))])
                           \o <<StripLine(lines[Len(lines)])>>,
                         TRUE),
           ret |-> TRUE]

\* the file after the call and the value returned
add_playcount_to_nfo(f) ==
  LET lines == f.lines
      root == ParseDocument(AllButLast(lines))
      unchanged == [file |-> f, ret |-> FALSE]
  IN IF ~f.exists THEN unchanged                      \* open() raises, caught
     ELSE IF Len(lines) < 2 THEN unchanged
     ELSE IF ~root.ok THEN unchanged                  \* ParseError, caught
     ELSE IF root.tag # "movie" THEN unchanged
     ELSE IF FindChild(root, "playcount") # 0 THEN unchanged
     ELSE [file |-> File(<<Line("decl", "playcount", <<>>)>>
                           \o SerializeDocument(
                                [root EXCEPT !.children = Append(@, Element("playcount", <<"1">>))])
                           \o <<StripLine(lines[Len(lines)])>>,
                         TRUE),
           ret |-> TRUE]

\* add_tag_to_movie_nfo setting the tag instead of appending one: the tags the
\* document held are dropped
add_tag_replacing(f, tag_value) ==
  LET lines == f.lines
      root == ParseDocument(AllButLast(lines))
      unchanged == [file |-> f, ret |-> FALSE]
  IN IF ~f.exists \/ Len(lines) < 2 THEN unchanged
     ELSE IF ~root.ok \/ root.tag # "movie" THEN unchanged
     ELSE [file |-> File(<<Line("decl", "tag", <<>>)>>
                           \o SerializeDocument(
                                [root EXCEPT !.children =
                                   Append(SelectSeq(@, LAMBDA el : el.name # "tag"),
                                          Element("tag", tag_value))])
                           \o <<StripLine(lines[Len(lines)])>>,
                         TRUE),
           ret |-> TRUE]

add_tag_to_movie_nfo(f, tag_value) ==
  LET lines == f.lines
      root == ParseDocument(AllButLast(lines))
      unchanged == [file |-> f, ret |-> FALSE]
  IN IF ~f.exists THEN unchanged
     ELSE IF Len(lines) < 2 THEN unchanged
     ELSE IF ~root.ok THEN unchanged
     ELSE IF root.tag # "movie" THEN unchanged
     ELSE [file |-> File(<<Line("decl", "tag", <<>>)>>
                           \o SerializeDocument(
                                [root EXCEPT !.children = Append(@, Element("tag", tag_value))])
                           \o <<StripLine(lines[Len(lines)])>>,
                         TRUE),
           ret |-> TRUE]

-----------------------------------------------------------------------------
(* Reading a sidecar *)

IsImdbUrl(t) ==
  Len(t) = 4 /\ t[1] = "https://" /\ t[2] = "www." /\ t[3] = "imdb.com/title/"
    /\ t[4] \in ImdbIds

\* ^https?://(www\.)?imdb\.com/title/tt\d+/?$
IsPoorImdbUrl(t) ==
  \E www \in {0, 1}, slash \in {0, 1} :
    /\ Len(t) = 3 + www + slash
    /\ t[1] \in {"https://", "http://"}
    /\ www = 1 => t[2] = "www."
    /\ t[2 + www] = "imdb.com/title/"
    /\ t[3 + www] \in ImdbIds
    /\ slash = 1 => t[4 + www] = "/"

\* ^ https://www.themoviedb.org/.*?$ : the pattern starts with a space
IsTmdbUrl(t) ==
  Len(t) >= 4 /\ t[1] = " " /\ t[2] = "https://" /\ t[3] = "www."
    /\ t[4] = "themoviedb.org/"

\* parse_movie_nfo_imdb taking the id of a poor IMDb URL as well
parse_movie_nfo_imdb_lenient(f) ==
  LET last_line == IF f.lines[Len(f.lines)].kind = "text"
                     THEN Strip(f.lines[Len(f.lines)].text)
                     ELSE <<f.lines[Len(f.lines)].kind>>
  IN IF ~f.exists THEN [id |-> "", diag |-> "read_error"]
     ELSE IF f.lines = <<>> THEN [id |-> "", diag |-> "none"]
     ELSE IF IsImdbUrl(last_line) THEN [id |-> last_line[4], diag |-> "none"]
     ELSE IF IsPoorImdbUrl(last_line)
            THEN [id |-> last_line[CHOOSE k \in 1..Len(last_line) : last_line[k] \in ImdbIds],
                  diag |-> "none"]
     ELSE IF IsTmdbUrl(last_line) THEN [id |-> "", diag |-> "none"]
     ELSE [id |-> "", diag |-> "invalid_url"]

\* the identity id of the last line ("" for None) and the diagnostic printed
parse_movie_nfo_imdb(f) ==
  LET last_line == IF f.lines[Len(f.lines)].kind = "text"
                     THEN Strip(f.lines[Len(f.lines)].text)
                     ELSE <<f.lines[Len(f.lines)].kind>>
  IN IF ~f.exists THEN [id |-> "", diag |-> "read_error"]
     ELSE IF f.lines = <<>> THEN [id |-> "", diag |-> "none"]
     ELSE IF IsImdbUrl(last_line) THEN [id |-> last_line[4], diag |-> "none"]
     ELSE IF IsPoorImdbUrl(last_line) THEN [id |-> "", diag |-> "poor_url"]
     ELSE IF IsTmdbUrl(last_line) THEN [id |-> "", diag |-> "none"]
     ELSE [id |-> "", diag |-> "invalid_url"]

\* the root (ok = FALSE for None) and the diagnostic printed
parse_movie_nfo_xml(f) ==
  LET root == ParseDocument(AllButLast(f.lines))
  IN IF ~f.exists THEN [root |-> NoRoot, diag |-> "none"]
     ELSE IF Len(f.lines) < 2 THEN [root |-> NoRoot, diag |-> "too_short"]
     ELSE IF ~root.ok THEN [root |-> NoRoot, diag |-> "xml_error"]
     ELSE [root |-> root, diag |-> "none"]

\* value: the stripped text; none: None returned; raises: text is None and
\* .strip() raises AttributeError, which nothing catches
get_movie_element(root, node_name) ==
  LET k == FindChild(root, node_name)
      r == [value |-> <<>>, none |-> TRUE, raises |-> FALSE, diag |-> "none"]
  IN IF root.tag # "movie" THEN [r EXCEPT !.diag = "root_not_movie"]
     ELSE IF k = 0 THEN r
     ELSE IF ~root.children[k].has_text THEN [r EXCEPT !.raises = TRUE]
     ELSE [r EXCEPT !.none = FALSE, !.value = Strip(root.children[k].text)]

\* the stripped texts of the children of that name that have a text
get_movie_elements(root, node_name) ==
  LET els == SelectSeq(root.children, LAMBDA el : el.name = node_name /\ el.has_text)
  IN IF els = <<>> THEN <<>> ELSE [k \in 1..Len(els) |-> Strip(els[k].text)]

-----------------------------------------------------------------------------
(* The metadata provider *)

Movie(id, imdb_id, title, original_title, release_year) ==
  [found |-> TRUE, id |-> id, imdb_id |-> imdb_id, title |-> title,
   original_title |-> original_title, release_year |-> release_year]

NoMovie ==
  [found |-> FALSE, id |-> 0, imdb_id |-> "", title |-> <<>>,
   original_title |-> <<>>, release_year |-> 0]

\* what TMDb knows, in the order it lists results; the third record has no
\* imdb_id
Catalog ==
  <<Movie(1, "tt1", <<"A">>, <<"a">>, 2000),
    Movie(2, "tt2", <<"b">>, <<"b", ":", "c">>, 2001),
    Movie(3, "", <<"c">>, <<"c">>, 2002)>>

FirstIndex(seq, Test(_)) ==
  LET hits == {k \in 1..Len(seq) : Test(seq[k])}
  IN IF hits = {} THEN 0 ELSE CHOOSE k \in hits : \A q \in hits : k <= q

\* search_movie_tmdb returning the first result when none passes the strict test
search_movie_tmdb_or_first(title, year) ==
  LET results == Catalog
      strict(result) ==
        /\ \/ Casefold(result.title) = Casefold(title)
           \/ Casefold(result.original_title) = Casefold(title)
        /\ result.release_year = year
      k == FirstIndex(results, strict)
  IN [results[IF k = 0 THEN 1 ELSE k] EXCEPT !.imdb_id = ""]

\* the first result whose title or original title equals the query under
\* casefold and whose release year is the year asked for; the result of a
\* search carries no imdb_id
search_movie_tmdb(title, year) ==
  LET results == Catalog
      strict(result) ==
        /\ \/ Casefold(result.title) = Casefold(title)
           \/ Casefold(result.original_title) = Casefold(title)
        /\ result.release_year = year
      k == FirstIndex(results, strict)
  IN IF k = 0 THEN NoMovie ELSE [results[k] EXCEPT !.imdb_id = ""]

get_movie_by_tmdb_id(tmdb_id) ==
  LET k == FirstIndex(Catalog, LAMBDA m : m.id = tmdb_id)
  IN IF k = 0 THEN NoMovie ELSE Catalog[k]

\* movie_results[0] with the id injected
get_movie_by_imdb_id(imdb_id) ==
  LET k == FirstIndex(Catalog, LAMBDA m : m.imdb_id = imdb_id)
  IN IF k = 0 THEN NoMovie ELSE [Catalog[k] EXCEPT !.imdb_id = imdb_id]

-----------------------------------------------------------------------------
(* Watch history and awards *)

\* is_movie_in_letterboxd_list comparing the titles as they are
is_movie_in_letterboxd_exact(letterboxd_data, title, year) ==
  \E k \in 1..Len(letterboxd_data) :
    /\ letterboxd_data[k].title = title
    /\ letterboxd_data[k].year = year

is_movie_in_letterboxd_list(letterboxd_data, title, year) ==
  \E k \in 1..Len(letterboxd_data) :
    /\ are_roughly_equals(letterboxd_data[k].title, title)
    /\ letterboxd_data[k].year = year

InSeq(x, seq) == \E k \in 1..Len(seq) : seq[k] = x

\* the categories of parse_awards, in the order of the dictionary
AwardNames ==
  <<"Oscar du meilleur film", "Oscar du meilleur film - Nomination",
    "Oscar du meilleur film international", "Oscar du meilleur film d'animation",
    "Cesar du meilleur film", "Palme d'Or">>

\* the ids read from ./awards/*.csv
awards ==
  [name \in {AwardNames[k] : k \in 1..Len(AwardNames)} |->
     IF name = "Oscar du meilleur film" THEN <<"tt1">>
     ELSE IF name = "Palme d'Or" THEN <<"tt1", "tt2">>
     ELSE IF name = "Cesar du meilleur film" THEN <<"tt2">>
     ELSE <<>>]

\* [key for key, values in awards.items() if imdb_id in values]
appropriate_award_tags(imdb_id) ==
  SelectSeq(AwardNames, LAMBDA key : InSeq(imdb_id, awards[key]))

\* [tag for tag in appropriate_award_tags if tag not in nfo_tags]
missing_tags(imdb_id, nfo_tags) ==
  SelectSeq(appropriate_award_tags(imdb_id), LAMBDA tag : ~InSeq(<<tag>>, nfo_tags))

\* [tag for tag in awards.keys() if tag in nfo_tags and imdb_id not in awards[tag]]
irrelevant_tags(imdb_id, nfo_tags) ==
  SelectSeq(AwardNames, LAMBDA tag : InSeq(<<tag>>, nfo_tags) /\ ~InSeq(imdb_id, awards[tag]))

-----------------------------------------------------------------------------
(* The record sources: rows as csv.reader yields them, a row a tuple of     *)
(* fields, a blank line the empty tuple                                     *)

\* a row of watched_override.csv: title, imdb_id
Row(title, imdb_id) == <<title, imdb_id>>

HeaderRow == Row(<<"title">>, "imdb_id")

\* title, imdb_id = row
Unpacks(row) == Len(row) = 2

RECURSIVE ids_of_rows(_)
\* the for loop of parse_movie_id_csv_into_id_array: it stops at the first row
\* that does not unpack into two fields, with ValueError
ids_of_rows(rows) ==
  IF rows = <<>> THEN [ids |-> <<>>, raises |-> "none"]
  ELSE IF ~Unpacks(Head(rows)) THEN [ids |-> <<>>, raises |-> "ValueError"]
  ELSE LET rest == ids_of_rows(Tail(rows))
       IN [rest EXCEPT !.ids = IF rest.raises = "none" THEN <<Head(rows)[2]>> \o @
                                ELSE <<>>]

\* the second field of every row after the first; open() raises when the file
\* is not there, and nothing in the function catches an exception
parse_movie_id_csv_into_id_array(csv) ==
  IF ~csv.exists THEN [ids |-> <<>>, raises |-> "FileNotFoundError"]
  ELSE IF csv.rows = <<>> THEN [ids |-> <<>>, raises |-> "none"]
  ELSE ids_of_rows(Tail(csv.rows))

\* append_movie_to_csv opening the file with 'w': the rows it held are lost
append_movie_rewriting(csv, title, imdb_id) ==
  [exists |-> TRUE, rows |-> <<HeaderRow, Row(title, imdb_id)>>]

append_movie_to_csv(csv, title, imdb_id) ==
  [exists |-> TRUE,
   rows |-> (IF csv.exists THEN csv.rows ELSE <<HeaderRow>>) \o <<Row(title, imdb_id)>>]

\* a row of the Letterboxd export: date, title, year, url
LetterboxdRow(title, year) == <<"date", title, year, "url">>

Digits == {"0", "1", "2", "9"}

\* int(year) returns: the text is digits, blanks around them aside
IsInt(text) == Strip(text) # <<>> /\ \A k \in 1..Len(Strip(text)) : Strip(text)[k] \in Digits

DigitValue(c) == IF c = "0" THEN 0 ELSE IF c = "1" THEN 1 ELSE IF c = "2" THEN 2 ELSE 9

RECURSIVE IntOfDigits(_)
IntOfDigits(ds) ==
  IF ds = <<>> THEN 0
  ELSE 10 * IntOfDigits(SubSeq(ds, 1, Len(ds) - 1)) + DigitValue(ds[Len(ds)])

\* int(year)
int(text) == IntOfDigits(Strip(text))

RECURSIVE movies_of_rows(_)
\* the for loop of parse_letterboxd_csv: a row that has not four fields is
\* printed and skipped; int(year) raises ValueError on a year that is no number
movies_of_rows(rows) ==
  IF rows = <<>> THEN [movies |-> <<>>, raises |-> "none", invalid |-> 0]
  ELSE LET row == Head(rows)
           rest == movies_of_rows(Tail(rows))
       IN IF Len(row) # 4 THEN [rest EXCEPT !.invalid = @ + 1]
          ELSE IF ~IsInt(row[3])
                 THEN [movies |-> <<>>, raises |-> "ValueError", invalid |-> 0]
          ELSE [rest EXCEPT !.movies = IF rest.raises = "none"
                                         THEN <<[title |-> row[2], year |-> int(row[3])]>> \o @
                                         ELSE <<>>]

\* the movies of the rows after the first, and how many rows were printed as
\* invalid before the function returned or raised
parse_letterboxd_csv(csv) ==
  IF ~csv.exists THEN [movies |-> <<>>, raises |-> "FileNotFoundError", invalid |-> 0]
  ELSE IF csv.rows = <<>> THEN [movies |-> <<>>, raises |-> "none", invalid |-> 0]
  ELSE movies_of_rows(Tail(csv.rows))

\* movie[0].replace(',', '')
comma_less(title) == SelectSeq(title, LAMBDA c : c # ",")

-----------------------------------------------------------------------------
(* __main__ *)

\* how many times the program is started in one behaviour
MaxRuns == 2

NoOp ==
  [op |-> "none", folder |-> 0, entry |-> 0, before |-> NoFile, title |-> <<>>,
   imdb_id |-> "", watched |-> FALSE, tag |-> <<>>, ret |-> FALSE, prev |-> "none"]

NoMatch == [matched |-> FALSE, title |-> <<>>, year |-> 0]

\* parse_title_and_year(filename) of a filename that matches the pattern
Parsed(title, year) == [matched |-> TRUE, title |-> title, year |-> year]

IdleLoc ==
  [folder |-> 0, movie |-> NoMatch, imdb_id |-> "", tmdb_movie |-> NoMovie,
   letterboxd_watched |-> FALSE, is_watched |-> FALSE, nfo_root |-> NoRoot,
   nfo_watched |-> FALSE, step |-> "none"]

AddDiag(ds, entry, kind) == IF kind = "none" THEN ds ELSE ds \cup {<<entry, kind>>}

\* the loop moves to the next entry, having printed ds
EndEntry(ds) ==
  /\ diags' = ds
  /\ i' = i + 1
  /\ pc' = IF i + 1 > Len(filepaths) THEN "done" ELSE "scan"

\* lines 557-563: the loop over the missing tags, then the irrelevant tags
EnterTagLoop(ms, ds, root, imdb_id) ==
  /\ missing' = ms
  /\ IF ms = <<>>
       THEN EndEntry(IF irrelevant_tags(imdb_id, get_movie_elements(root, "tag")) # <<>>
                       THEN AddDiag(ds, i, "irrelevant_tag") ELSE ds)
       ELSE diags' = ds /\ i' = i /\ pc' = "add_tag"

\* lines 498-502: the bulk export, then the override list; an exception of
\* either is caught nowhere
LoadSources ==
  /\ pc = "start"
  /\ \E lb \in {parse_letterboxd_csv(letterboxdFile)},
        ov \in {parse_movie_id_csv_into_id_array(overrideFile)} :
       /\ diags' = IF lb.invalid > 0 THEN AddDiag(diags, 0, "invalid_row") ELSE diags
       /\ letterboxd_movies' = lb.movies
       /\ override_watched_movies' = IF lb.raises = "none" THEN ov.ids ELSE <<>>
       /\ IF lb.raises # "none"
            THEN pc' = "aborted" /\ exc' = lb.raises /\ i' = i
            ELSE IF ov.raises # "none"
                   THEN pc' = "aborted" /\ exc' = ov.raises /\ i' = i
                   ELSE /\ i' = 1
                        /\ pc' = IF filepaths = <<>> THEN "done" ELSE "scan"
                        /\ exc' = exc
  /\ UNCHANGED <<history, files, lastOp, overrideFile, worldVars, run, loc, missing, call,
                 prompts>>

\* lines 503-515: the head of the loop body, up to the provider call
ScanEntry ==
  /\ pc = "scan"
  /\ LET entry == filepaths[i]
         hint == parse_movie_nfo_imdb(files[entry.folder])
     IN /\ loc' = [loc EXCEPT !.movie = entry.movie, !.folder = entry.folder,
                              !.imdb_id = hint.id]
        /\ IF ~entry.movie.matched
             THEN EndEntry(AddDiag(diags, i, hint.diag)) /\ UNCHANGED call
             ELSE /\ diags' = AddDiag(diags, i, hint.diag)
                  /\ i' = i
                  /\ pc' = "call"
                  /\ call' = IF hint.id # "" THEN "find" ELSE "search"
  /\ UNCHANGED <<history, files, lastOp, overrideFile, worldVars, letterboxd_movies, override_watched_movies, run,
                 missing, exc, prompts>>

\* requests.get raises HTTPError with status 429: the call waits
RateLimited ==
  /\ pc = "call"
  /\ pc' = "sleep"
  /\ UNCHANGED <<history, files, lastOp, overrideFile, worldVars, letterboxd_movies, override_watched_movies, run,
                 i, loc, missing, call, exc, diags, prompts>>

\* time.sleep(10), then the same function is called again with the same arguments
wait_for_tmdb_api_rate ==
  /\ pc = "sleep"
  /\ pc' = "call"
  /\ UNCHANGED <<history, files, lastOp, overrideFile, worldVars, letterboxd_movies, override_watched_movies, run,
                 i, loc, missing, call, exc, diags, prompts>>

\* requests.get raises something else (an HTTPError with another status, which
\* is re-raised, or an exception the except clause does not name): caught nowhere
ProviderError ==
  /\ pc = "call"
  /\ pc' = "aborted"
  /\ exc' = "RequestException"
  /\ UNCHANGED <<history, files, lastOp, overrideFile, worldVars, letterboxd_movies, override_watched_movies, run,
                 i, loc, missing, call, diags, prompts>>

\* lines 519-559 for one entry: what the body computes from the resolved movie,
\* the parsed filename, the sidecar and the loaded override ids, and the step it
\* takes next
reconcile(tmdb_movie, movie, f, override_ids, letterboxd_data) ==
  LET imdb_id == tmdb_movie.imdb_id
      letterboxd_watched ==
        is_movie_in_letterboxd_list(letterboxd_data, tmdb_movie.original_title,
                                    tmdb_movie.release_year)
      override_watched == InSeq(imdb_id, override_ids)
      is_watched == letterboxd_watched \/ override_watched
      xml == parse_movie_nfo_xml(f)
      nfo_root == xml.root
      nfo_title == get_movie_element(nfo_root, "title")
      nfo_watch_count == get_movie_element(nfo_root, "playcount")
      nfo_watched == ~nfo_watch_count.none
      title_diff == \/ ~are_roughly_equals(nfo_title.value, tmdb_movie.title)
                    \/ ~are_roughly_equals(nfo_title.value, movie.title)
      step == IF ~nfo_root.ok THEN "create"
              ELSE IF nfo_title.raises THEN "raise"
              ELSE IF nfo_title.none THEN "no_title"
              ELSE IF nfo_watch_count.raises THEN "raise"
              ELSE IF nfo_watched /\ ~is_watched THEN "ask_override"
              ELSE IF is_watched /\ ~nfo_watched THEN "add_playcount"
              ELSE "tags"
      printed ==
        {xml.diag}
          \cup (IF nfo_root.ok THEN {nfo_title.diag} ELSE {})
          \cup (IF step = "no_title" THEN {"no_title"} ELSE {})
          \cup (IF nfo_root.ok /\ ~nfo_title.raises /\ ~nfo_title.none /\ title_diff
                  THEN {"title_diff"} ELSE {})
          \cup (IF step = "ask_override" THEN {"watched_mismatch"} ELSE {})
  IN [imdb_id |-> imdb_id, letterboxd_watched |-> letterboxd_watched,
      is_watched |-> is_watched, nfo_root |-> nfo_root, nfo_watched |-> nfo_watched,
      step |-> step, printed |-> printed \ {"none"},
      missing |-> IF step \in {"ask_override", "add_playcount", "tags"}
                    THEN missing_tags(imdb_id, get_movie_elements(nfo_root, "tag"))
                    ELSE <<>>]

\* the loop body from line 519 on, with tmdb_movie resolved
Reconcile(tmdb_movie) ==
  \E r \in {reconcile(tmdb_movie, loc.movie, files[loc.folder], override_watched_movies,
                      letterboxd_movies)} :
  LET ds == diags \cup {<<i, kind>> : kind \in r.printed}
  IN /\ loc' = [loc EXCEPT !.imdb_id = r.imdb_id, !.tmdb_movie = tmdb_movie,
                           !.letterboxd_watched = r.letterboxd_watched,
                           !.is_watched = r.is_watched, !.nfo_root = r.nfo_root,
                           !.nfo_watched = r.nfo_watched, !.step = r.step]
     /\ CASE r.step = "create" ->
               \* prompt_create_movie_nfo starts with get_movie_credits
               /\ diags' = ds /\ i' = i /\ pc' = "call" /\ call' = "credits"
               /\ UNCHANGED <<missing, exc>>
          [] r.step = "raise" ->
               /\ diags' = ds /\ i' = i /\ pc' = "aborted" /\ exc' = "AttributeError"
               /\ UNCHANGED <<missing, call>>
          [] r.step = "no_title" ->
               EndEntry(ds) /\ UNCHANGED <<missing, call, exc>>
          [] r.step \in {"ask_override", "add_playcount"} ->
               /\ diags' = ds /\ i' = i /\ pc' = r.step /\ missing' = r.missing
               /\ UNCHANGED <<call, exc>>
          [] r.step = "tags" ->
               EnterTagLoop(r.missing, ds, r.nfo_root, r.imdb_id) /\ UNCHANGED <<call, exc>>

\* get_movie_by_imdb_id answers (line 515, the sidecar gave an id)
FindByImdbId ==
  /\ pc = "call" /\ call = "find"
  /\ LET tmdb_movie == get_movie_by_imdb_id(loc.imdb_id)
     IN IF ~tmdb_movie.found
          THEN /\ EndEntry(AddDiag(diags, i, "no_movie_for_id"))
               /\ loc' = [loc EXCEPT !.tmdb_movie = NoMovie]
               /\ UNCHANGED <<missing, call, exc>>
          ELSE Reconcile(tmdb_movie)
  /\ UNCHANGED <<history, files, lastOp, overrideFile, worldVars, letterboxd_movies, override_watched_movies, run,
                 prompts>>

\* search_movie_tmdb answers (find_tmdb_movie, lines 67-71)
SearchMovie ==
  /\ pc = "call" /\ call = "search"
  /\ LET tmdb_movie == search_movie_tmdb(loc.movie.title, loc.movie.year)
     IN /\ loc' = [loc EXCEPT !.tmdb_movie = tmdb_movie]
        /\ IF ~tmdb_movie.found
             THEN EndEntry(AddDiag(diags, i, "not_found")) /\ UNCHANGED call
             ELSE diags' = diags /\ i' = i /\ pc' = "call" /\ call' = "details"
  /\ UNCHANGED <<history, files, lastOp, overrideFile, worldVars, letterboxd_movies, override_watched_movies, run,
                 missing, exc, prompts>>

\* MovieDetails without the test of line 80: a record without imdb_id goes on
MovieDetailsWithoutId ==
  /\ pc = "call" /\ call = "details"
  /\ Reconcile(get_movie_by_tmdb_id(loc.tmdb_movie.id))
  /\ UNCHANGED <<history, files, lastOp, overrideFile, worldVars, letterboxd_movies,
                 override_watched_movies, run, prompts>>

\* get_movie_by_tmdb_id answers (find_tmdb_movie, lines 73-83)
MovieDetails ==
  /\ pc = "call" /\ call = "details"
  /\ LET tmdb_movie == get_movie_by_tmdb_id(loc.tmdb_movie.id)
     IN IF tmdb_movie.imdb_id = ""
          THEN /\ EndEntry(AddDiag(diags, i, "no_imdb_id"))
               /\ loc' = [loc EXCEPT !.tmdb_movie = NoMovie]
               /\ UNCHANGED <<missing, call, exc>>
          ELSE Reconcile(tmdb_movie)
  /\ UNCHANGED <<history, files, lastOp, overrideFile, worldVars, letterboxd_movies, override_watched_movies, run,
                 prompts>>

\* get_movie_credits answers: the movie is shown and the question asked
MovieCredits ==
  /\ pc = "call" /\ call = "credits"
  /\ pc' = "prompt_create"
  /\ prompts' = prompts \cup {<<i, "create">>}
  /\ UNCHANGED <<history, files, lastOp, overrideFile, worldVars, letterboxd_movies, override_watched_movies, run,
                 i, loc, missing, call, exc, diags>>

\* lines 265-269 and 532-533: the answer to "Do you want to create this NFO?"
PromptCreateMovieNfo ==
  /\ pc = "prompt_create"
  /\ IF answers.create
       THEN /\ files' = [files EXCEPT ![loc.folder] =
                           create_movie_nfo(loc.tmdb_movie.title, loc.imdb_id,
                                            loc.letterboxd_watched)]
            /\ lastOp' = [NoOp EXCEPT !.op = "create", !.folder = loc.folder, !.entry = i,
                                      !.before = files[loc.folder],
                                      !.title = loc.tmdb_movie.title,
                                      !.imdb_id = loc.imdb_id,
                                      !.watched = loc.letterboxd_watched, !.ret = TRUE,
                                      !.prev = lastOp.op]
       ELSE UNCHANGED <<files, lastOp>>
  /\ EndEntry(diags)
  /\ UNCHANGED <<history, overrideFile, worldVars, letterboxd_movies, override_watched_movies, run, loc, missing,
                 call, exc, prompts>>

\* lines 549-552 and 418-423: the answer to "Add movie ... to watched_override.csv?"
AskAndAppendToWatchedOverride ==
  /\ pc = "ask_override"
  /\ prompts' = prompts \cup {<<i, "override">>}
  /\ overrideFile' = IF answers.override
                       THEN append_movie_to_csv(overrideFile, comma_less(loc.movie.title),
                                                loc.imdb_id)
                       ELSE overrideFile
  /\ EnterTagLoop(missing, diags, loc.nfo_root, loc.imdb_id)
  /\ UNCHANGED <<history, files, lastOp, worldVars, letterboxd_movies, override_watched_movies, run, loc, call,
                 exc>>

\* lines 554-555
AddPlaycount ==
  /\ pc = "add_playcount"
  /\ LET r == add_playcount_to_nfo(files[loc.folder])
     IN /\ files' = [files EXCEPT ![loc.folder] = r.file]
        /\ lastOp' = [NoOp EXCEPT !.op = "playcount", !.folder = loc.folder, !.entry = i,
                                  !.before = files[loc.folder], !.ret = r.ret,
                                  !.prev = lastOp.op]
  /\ EnterTagLoop(missing, diags, loc.nfo_root, loc.imdb_id)
  /\ UNCHANGED <<history, overrideFile, worldVars, letterboxd_movies, override_watched_movies, run, loc, call,
                 exc, prompts>>

\* lines 559-563: one turn of the loop over the missing tags
AddTag ==
  /\ pc = "add_tag"
  /\ LET r == add_tag_to_movie_nfo(files[loc.folder], <<Head(missing)>>)
     IN /\ files' = [files EXCEPT ![loc.folder] = r.file]
        /\ lastOp' = [NoOp EXCEPT !.op = "tag", !.folder = loc.folder, !.entry = i,
                                  !.before = files[loc.folder], !.tag = <<Head(missing)>>,
                                  !.ret = r.ret, !.prev = lastOp.op]
  /\ EnterTagLoop(Tail(missing), diags, loc.nfo_root, loc.imdb_id)
  /\ UNCHANGED <<history, overrideFile, worldVars, letterboxd_movies, override_watched_movies, run, loc, call,
                 exc, prompts>>

\* the process has stopped or is stopped here, and the program is started again
Rerun ==
  /\ run < MaxRuns
  /\ pc # "start"
  /\ run' = run + 1
  /\ pc' = "start"
  /\ i' = 0
  /\ loc' = IdleLoc
  /\ missing' = <<>>
  /\ call' = "none"
  /\ exc' = "none"
  /\ diags' = {}
  /\ prompts' = {}
  /\ lastOp' = NoOp
  /\ letterboxd_movies' = <<>>
  /\ override_watched_movies' = <<>>
  /\ history' = [history EXCEPT !.stopped = IF pc \in {"done", "aborted"} THEN "ended"
                                             ELSE "interrupted"]
  /\ UNCHANGED <<files, overrideFile, worldVars>>

-----------------------------------------------------------------------------
(* The library, the sidecars and the watch history the program is started on *)

\* a sidecar as an editor or an earlier run left it
Sidecar(root_tag, children, last_lines) ==
  File(<<Line("decl", "create", <<>>), Line("open", root_tag, <<>>)>>
         \o children \o <<Line("close", root_tag, <<>>)>> \o last_lines,
       FALSE)

Title(t) == Line("elem", "title", t)
Playcount(t) == Line("elem", "playcount", t)
Tag(t) == Line("elem", "tag", <<t>>)
Url(t) == Line("text", "", t)

InitialSidecars ==
  { NoFile,
    Sidecar("movie", <<Title(<<"a">>)>>, <<Url(ImdbUrl("tt1"))>>),
    Sidecar("movie", <<Title(<<"a">>), Playcount(<<"1">>)>>, <<Url(ImdbUrl("tt1"))>>),
    Sidecar("movie", <<Title(<<"z">>), Tag("Cesar du meilleur film")>>,
            <<Url(ImdbUrl("tt1"))>>),
    Sidecar("movie", <<Title(<<" ", "a">>), Tag("Palme d'Or"), Playcount(<<"2">>)>>,
            <<Url(<<"http://", "imdb.com/title/", "tt1", "/">>)>>),
    \* an id TMDb does not know
    Sidecar("movie", <<Title(<<"a">>)>>, <<Url(ImdbUrl("tt9"))>>),
    \* the last line is a page of themoviedb.org
    Sidecar("movie", <<Title(<<"a">>)>>,
            <<Url(<<"https://", "www.", "themoviedb.org/", "movie/1">>)>>),
    \* unparsable: one line, a missing end tag, a line after the identity line
    File(<<Url(ImdbUrl("tt1"))>>, TRUE),
    File(<<Line("open", "movie", <<>>), Title(<<"a">>), Url(ImdbUrl("tt1"))>>, TRUE),
    Sidecar("movie", <<Title(<<"a">>)>>, <<Url(ImdbUrl("tt1")), Line("blank", "", <<>>)>>),
    \* parsable, not valid: empty title, empty playcount, no title, another root
    Sidecar("movie", <<Title(<<>>)>>, <<Url(ImdbUrl("tt1"))>>),
    Sidecar("movie", <<Title(<<"a">>), Playcount(<<>>)>>, <<Url(ImdbUrl("tt1"))>>),
    Sidecar("movie", <<Playcount(<<"1">>)>>, <<Url(ImdbUrl("tt1"))>>),
    Sidecar("film", <<Title(<<"a">>)>>, <<Url(ImdbUrl("tt1"))>>) }

OtherSidecars ==
  { NoFile,
    Sidecar("movie", <<Title(<<"b">>), Playcount(<<"1">>)>>, <<Url(ImdbUrl("tt2"))>>) }

Folders == {1, 2}

Entry(movie, folder) == [movie |-> movie, folder |-> folder]

\* find_mkv_files(ROOT_PATH): two files, in one folder or in two
Libraries ==
  { <<Entry(m1, 1), Entry(m2, f2)>> :
      m1 \in {NoMatch, Parsed(<<"a">>, 2000), Parsed(<<"z">>, 1999), Parsed(<<"c">>, 2002)},
      m2 \in {Parsed(<<"a">>, 2000), Parsed(<<"b">>, 2001)},
      f2 \in Folders }

Csv(rows) == [exists |-> TRUE, rows |-> rows]

NoCsv == [exists |-> FALSE, rows |-> <<>>]

LetterboxdHeader == LetterboxdRow(<<"N", "a", "m", "e">>, <<"Y", "e", "a", "r">>)

\* the row of the export that matches tt1: "A (x)", 2000
WatchedA == LetterboxdRow(<<"A", " ", "(", "x", ")">>, <<"2", "0", "0", "0">>)

\* the bulk export and the override list: neither, one or the other knows tt1;
\* then sources with a row that is not well formed, and no override list yet
WatchHistories ==
  { [letterboxd |-> Csv(<<LetterboxdHeader>>), override |-> Csv(<<HeaderRow>>)],
    [letterboxd |-> Csv(<<LetterboxdHeader, WatchedA>>), override |-> Csv(<<HeaderRow>>)],
    [letterboxd |-> Csv(<<LetterboxdHeader>>),
     override |-> Csv(<<HeaderRow, Row(<<"a">>, "tt1")>>)],
    \* a row of three fields before a good row
    [letterboxd |-> Csv(<<LetterboxdHeader, <<"date", <<"b">>, <<"2", "0", "0", "1">>>>,
                          WatchedA>>),
     override |-> Csv(<<HeaderRow>>)],
    \* a row without a year after a good row
    [letterboxd |-> Csv(<<LetterboxdHeader, WatchedA, LetterboxdRow(<<"b">>, <<>>)>>),
     override |-> Csv(<<HeaderRow>>)],
    \* a blank line before a good row
    [letterboxd |-> Csv(<<LetterboxdHeader>>),
     override |-> Csv(<<HeaderRow, <<>>, Row(<<"a">>, "tt1")>>)],
    [letterboxd |-> Csv(<<LetterboxdHeader>>), override |-> NoCsv] }

Init ==
  /\ files \in [Folders -> InitialSidecars \cup OtherSidecars]
  /\ files[1] \in InitialSidecars
  /\ files[2] \in OtherSidecars
  /\ filepaths \in Libraries
  /\ \E w \in WatchHistories :
       /\ letterboxdFile = w.letterboxd
       /\ overrideFile = w.override
  /\ answers \in [create : BOOLEAN, override : BOOLEAN]
  /\ lastOp = NoOp
  /\ letterboxd_movies = <<>>
  /\ override_watched_movies = <<>>
  /\ run = 1
  /\ i = 0
  /\ pc = "start"
  /\ loc = IdleLoc
  /\ missing = <<>>
  /\ call = "none"
  /\ exc = "none"
  /\ diags = {}
  /\ prompts = {}
  /\ history = [files |-> files, csv |-> overrideFile, stopped |-> "none"]

Next ==
  \/ LoadSources
  \/ ScanEntry
  \/ RateLimited
  \/ wait_for_tmdb_api_rate
  \/ ProviderError
  \/ FindByImdbId
  \/ SearchMovie
  \/ MovieDetails
  \/ MovieCredits
  \/ PromptCreateMovieNfo
  \/ AskAndAppendToWatchedOverride
  \/ AddPlaycount
  \/ AddTag
  \/ Rerun

Spec == Init /\ [][Next]_vars

-----------------------------------------------------------------------------
(* The sidecar store on its own: create_movie_nfo, add_playcount_to_nfo and   *)
(* add_tag_to_movie_nfo called in any order on the movie.nfo of folder 1      *)

\* a call that would make the file longer than this is not made
MaxLines == 8

\* titles the provider may hand to create_movie_nfo
StoreTitles ==
  { <<"a">>, <<"a", "&", "b">>, <<"l", "U+2019", "a">>, <<"a", "<", "b">>, <<"a", ":", "b">> }

StoreTags == { <<"Palme d'Or">>, <<"a", "&", "b">> }

\* sidecars valid under the format: a movie document, then the identity line
ValidSidecars ==
  { Sidecar("movie", <<Title(<<"a">>)>>, <<Url(ImdbUrl("tt1"))>>),
    Sidecar("movie", <<Title(<<"a", "&amp;", "b">>), Playcount(<<"3">>)>>,
            <<Url(ImdbUrl("tt2"))>>),
    Sidecar("movie", <<Tag("Palme d'Or"), Title(<<"a">>)>>, <<Url(ImdbUrl("tt1"))>>) }

InitStore ==
  /\ files \in [Folders -> ValidSidecars \cup {NoFile}]
  /\ files[2] = NoFile
  /\ lastOp = NoOp
  /\ filepaths = <<>>
  /\ letterboxdFile = Csv(<<LetterboxdHeader>>)
  /\ letterboxd_movies = <<>>
  /\ overrideFile = Csv(<<HeaderRow>>)
  /\ answers = [create |-> FALSE, override |-> FALSE]
  /\ override_watched_movies = <<>>
  /\ run = 1
  /\ i = 0
  /\ pc = "store"
  /\ loc = IdleLoc
  /\ missing = <<>>
  /\ call = "none"
  /\ exc = "none"
  /\ diags = {}
  /\ prompts = {}
  /\ history = [files |-> files, csv |-> overrideFile, stopped |-> "none"]

StoreCreate ==
  /\ pc = "store"
  /\ \E title \in StoreTitles, imdb_id \in ImdbIds, watched \in BOOLEAN :
       /\ files' = [files EXCEPT ![1] = create_movie_nfo(title, imdb_id, watched)]
       /\ lastOp' = [NoOp EXCEPT !.op = "create", !.folder = 1, !.before = files[1],
                                 !.title = title, !.imdb_id = imdb_id,
                                 !.watched = watched, !.ret = TRUE,
                                 !.prev = lastOp.op]
  /\ UNCHANGED <<worldVars, mainVars>>

StoreMarkWatched ==
  /\ pc = "store"
  /\ Len(files[1].lines) < MaxLines
  /\ LET r == add_playcount_to_nfo(files[1])
     IN /\ files' = [files EXCEPT ![1] = r.file]
        /\ lastOp' = [NoOp EXCEPT !.op = "playcount", !.folder = 1, !.before = files[1],
                                  !.ret = r.ret, !.prev = lastOp.op]
  /\ UNCHANGED <<worldVars, mainVars>>

StoreAddTag ==
  /\ pc = "store"
  /\ Len(files[1].lines) < MaxLines
  /\ \E tag_value \in StoreTags :
       LET r == add_tag_to_movie_nfo(files[1], tag_value)
       IN /\ files' = [files EXCEPT ![1] = r.file]
          /\ lastOp' = [NoOp EXCEPT !.op = "tag", !.folder = 1, !.before = files[1],
                                    !.tag = tag_value, !.ret = r.ret, !.prev = lastOp.op]
  /\ UNCHANGED <<worldVars, mainVars>>

NextStore == StoreCreate \/ StoreMarkWatched \/ StoreAddTag

SpecStore == InitStore /\ [][NextStore]_vars

-----------------------------------------------------------------------------
(* What a sidecar says, read with the program's own readers *)

CountChildren(root, node_name) ==
  Cardinality({k \in 1..Len(root.children) : root.children[k].name = node_name})

\* the document of a sidecar: title, watched flag, tags, identity id
Document(f) ==
  LET root == parse_movie_nfo_xml(f).root
  IN [title |-> get_movie_element(root, "title").value,
      watched |-> FindChild(root, "playcount") # 0,
      tags |-> get_movie_elements(root, "tag"),
      imdb_id |-> parse_movie_nfo_imdb(f).id]

\* a valid sidecar: both readers succeed, the root is movie, the title has a text
ValidSidecar(f) ==
  LET root == parse_movie_nfo_xml(f).root
      title == get_movie_element(root, "title")
  IN /\ f.exists
     /\ root.ok /\ root.tag = "movie"
     /\ ~title.none /\ ~title.raises
     /\ parse_movie_nfo_imdb(f).id # ""

Markers(f) == CountChildren(parse_movie_nfo_xml(f).root, "playcount")

SeqToSet(seq) == {seq[k] : k \in 1..Len(seq)}

NoDuplicateTag(f) ==
  LET tags == get_movie_elements(parse_movie_nfo_xml(f).root, "tag")
  IN \A j, k \in 1..Len(tags) : tags[j] = tags[k] => j = k

-----------------------------------------------------------------------------
(* One whole run as a function of the files it starts on: the provider answers *)
(* every call, the user answers as in answers                                  *)

\* find_tmdb_movie(movie): NoMovie for None
find_tmdb_movie(movie) ==
  LET found == search_movie_tmdb(movie.title, movie.year)
      details == get_movie_by_tmdb_id(found.id)
  IN IF ~found.found THEN NoMovie
     ELSE IF details.imdb_id = "" THEN NoMovie
     ELSE details

\* lines 559-560 run to the end
RECURSIVE add_missing_tags(_, _)
add_missing_tags(f, tags) ==
  IF tags = <<>> THEN f
  ELSE add_missing_tags(add_tag_to_movie_nfo(f, <<Head(tags)>>).file, Tail(tags))

\* one turn of the for loop (lines 505-563)
process_entry(entry, fs, csv, override_ids) ==
  LET f == fs[entry.folder]
      hint == parse_movie_nfo_imdb(f)
      tmdb_movie == IF hint.id # "" THEN get_movie_by_imdb_id(hint.id)
                    ELSE find_tmdb_movie(entry.movie)
      r == reconcile(tmdb_movie, entry.movie, f, override_ids, letterboxd_movies)
      same == [files |-> fs, csv |-> csv, aborted |-> FALSE]
      with(g) == [same EXCEPT !.files = [fs EXCEPT ![entry.folder] = g]]
  IN IF ~entry.movie.matched \/ ~tmdb_movie.found THEN same
     ELSE CASE r.step = "create" ->
                 IF answers.create
                   THEN with(create_movie_nfo(tmdb_movie.title, r.imdb_id,
                                              r.letterboxd_watched))
                   ELSE same
            [] r.step = "raise" -> [same EXCEPT !.aborted = TRUE]
            [] r.step = "no_title" -> same
            [] r.step = "ask_override" ->
                 [with(add_missing_tags(f, r.missing)) EXCEPT
                    !.csv = IF answers.override
                              THEN append_movie_to_csv(csv, comma_less(entry.movie.title),
                                                       r.imdb_id)
                              ELSE csv]
            [] r.step = "add_playcount" ->
                 with(add_missing_tags(add_playcount_to_nfo(f).file, r.missing))
            [] r.step = "tags" -> with(add_missing_tags(f, r.missing))

RECURSIVE run_from(_, _, _, _)
run_from(k, fs, csv, override_ids) ==
  IF k > Len(filepaths) THEN [files |-> fs, csv |-> csv]
  ELSE LET r == process_entry(filepaths[k], fs, csv, override_ids)
       IN IF r.aborted THEN [files |-> r.files, csv |-> r.csv]
          ELSE run_from(k + 1, r.files, r.csv, override_ids)

\* lines 498-563: the files one uninterrupted run leaves
uninterrupted_run(fs, csv) ==
  run_from(1, fs, csv, parse_movie_id_csv_into_id_array(csv).ids)

\* the run has ended by itself: the loop is over or an exception of the body ended it
RunEnded == pc = "done" \/ (pc = "aborted" /\ exc = "AttributeError")

\* the specification in which the program never stops while it can take a step
SpecLive == Init /\ [][Next]_vars /\ WF_vars(Next)

-----------------------------------------------------------------------------
(* Properties of the sidecar store, under SpecStore *)

Before == lastOp.before
After == files[lastOp.folder]
RootOf(f) == parse_movie_nfo_xml(f).root

\* C6: add_playcount_to_nfo on a valid sidecar without a playcount appends
\* exactly one and returns True; on a sidecar that has one it returns False and
\* leaves the file as it is; two calls in a row leave exactly one playcount.
C6_MarkWatchedIdempotent ==
  (lastOp.op = "playcount" /\ ValidSidecar(Before)) =>
    /\ Markers(Before) = 0 =>
         /\ lastOp.ret
         /\ Markers(After) = 1
         /\ RootOf(After).children
              = Append(RootOf(Before).children, Element("playcount", <<"1">>))
    /\ Markers(Before) > 0 => ~lastOp.ret /\ After = Before
    /\ lastOp.prev = "playcount" => Markers(After) = 1

\* the second of two calls in a row, the first of which wrote the playcount
C6_SecondCallIsNoOp ==
  /\ lastOp.op = "playcount" /\ lastOp.prev = "playcount"
  /\ ValidSidecar(Before)
  /\ Before.lines[1].name = "playcount"
  /\ ~lastOp.ret
  /\ Markers(After) = 1

\* C7: a sidecar read after it was written says what was written: after
\* create_movie_nfo the title, the watched flag, no tag and the identity id given;
\* after add_tag_to_movie_nfo or add_playcount_to_nfo on a valid sidecar what it
\* said before, with the one element added.
C7_WriteThenReadPreserves ==
  /\ lastOp.op = "create" =>
       Document(After) = [title |-> lastOp.title, watched |-> lastOp.watched,
                          tags |-> <<>>, imdb_id |-> lastOp.imdb_id]
  /\ (lastOp.op = "playcount" /\ ValidSidecar(Before) /\ lastOp.ret) =>
       Document(After) = [Document(Before) EXCEPT !.watched = TRUE]
  /\ (lastOp.op = "tag" /\ ValidSidecar(Before)) =>
       Document(After) = [Document(Before) EXCEPT !.tags = Append(@, lastOp.tag)]

\* C8: whatever create_movie_nfo, add_playcount_to_nfo and add_tag_to_movie_nfo
\* calls were made from no file or a valid sidecar, the file is a valid sidecar:
\* a well-formed movie document on all lines but the last, then the canonical
\* identity URL, both readable.
C8_WritesKeepSidecarValid ==
  files[1].exists =>
    /\ ValidSidecar(files[1])
    /\ files[1].lines[Len(files[1].lines)].kind = "text"
    /\ IsImdbUrl(files[1].lines[Len(files[1].lines)].text)

-----------------------------------------------------------------------------
(* Properties of the runs, under Spec and SpecLive *)

\* C1: an entry whose sidecar exists but cannot be parsed is skipped: the
\* creation prompt is never shown for it and create_movie_nfo never replaces an
\* existing file, whatever the answer.
C1_UnparsableSidecarSkipped ==
  /\ pc = "prompt_create" => ~files[loc.folder].exists
  /\ lastOp.op = "create" => ~Before.exists

\* C2: the sidecar created for an entry holds the playcount element if and only
\* if is_watched (bulk export match or id in the override list) is true for it.
C2_CreatedMarkerIffWatched ==
  (lastOp.op = "create" /\ lastOp.entry = i - 1 /\ pc \in {"scan", "done"}) =>
    (Document(After).watched <=> loc.is_watched)

\* C3: a provider call that was answered with the rate-limit signal ends: it is
\* not retried for ever.
C3_RateLimitedCallEnds == (pc = "sleep") ~> (pc \notin {"call", "sleep"})

\* C4: no failure of one entry ends the run: the loop goes on to the entries
\* after it.
C4_EntryFailureNeverEndsRun == i >= 1 => (pc # "aborted" /\ exc = "none")

\* C5: a run started after an interrupted run ends with the sidecars and the
\* override list one uninterrupted run from the first files would have left, and
\* no sidecar ever holds two playcount elements or the same tag twice.
C5_RerunEndsAsOneRun ==
  /\ (run = 2 /\ history.stopped = "interrupted" /\ RunEnded) =>
       /\ files = uninterrupted_run(history.files, history.csv).files
       /\ overrideFile = uninterrupted_run(history.files, history.csv).csv
  /\ \A f \in Folders : Markers(files[f]) <= 1 /\ NoDuplicateTag(files[f])

\* the loop has just finished an entry whose sidecar went through lines 546-563
TagStepDone ==
  /\ pc \in {"scan", "done"}
  /\ loc.movie.matched /\ loc.tmdb_movie.found
  /\ loc.step \in {"ask_override", "add_playcount", "tags"}

TagsOf(f) == get_movie_elements(RootOf(f), "tag")

Occurrences(seq, x) == Cardinality({k \in 1..Len(seq) : seq[k] = x})

\* C9: when the tag loop of an entry is over, every award category that lists
\* the entry's id is among the tags of its sidecar exactly once and none is
\* missing, also when the playcount was added in the same turn; each call of
\* add_tag_to_movie_nfo wrote a file with exactly its tag appended.
C9_RequiredTagsPresentOnce ==
  /\ TagStepDone =>
       /\ missing_tags(loc.imdb_id, TagsOf(files[loc.folder])) = <<>>
       /\ \A k \in 1..Len(AwardNames) :
            InSeq(loc.imdb_id, awards[AwardNames[k]]) =>
              Occurrences(TagsOf(files[loc.folder]), <<AwardNames[k]>>) = 1
       /\ loc.step = "add_playcount" => Document(files[loc.folder]).watched
  /\ lastOp.op = "tag" =>
       /\ lastOp.ret
       /\ TagsOf(After) = Append(TagsOf(Before), lastOp.tag)

\* an entry that got its playcount and then two tags, each by its own write
C9_PlaycountThenTwoTags ==
  /\ TagStepDone
  /\ loc.step = "add_playcount"
  /\ lastOp.op = "tag" /\ lastOp.prev = "tag" /\ lastOp.entry = i - 1
  /\ Len(TagsOf(After)) = Len(TagsOf(Before)) + 1
  /\ Document(After).watched

IsPrefix(s, t) == Len(s) <= Len(t) /\ SubSeq(t, 1, Len(s)) = s

\* g holds every element f holds, unchanged and in place, and the same last line
\* (blanks around it aside, as parse_movie_nfo_imdb reads it)
OnlyAdds(f, g) ==
  /\ RootOf(g).ok
  /\ RootOf(g).tag = RootOf(f).tag
  /\ IsPrefix(RootOf(f).children, RootOf(g).children)
  /\ StripLine(g.lines[Len(g.lines)]) = StripLine(f.lines[Len(f.lines)])

TitleDiffers(f) ==
  \/ ~are_roughly_equals(Document(f).title, loc.tmdb_movie.title)
  \/ ~are_roughly_equals(Document(f).title, loc.movie.title)

HasStaleTag(f) ==
  \E k \in 1..Len(AwardNames) :
    InSeq(<<AwardNames[k]>>, TagsOf(f)) /\ ~InSeq(loc.imdb_id, awards[AwardNames[k]])

\* C10: no step changes or removes an element or the last line of a sidecar
\* that parses: steps only append elements; a title that differs and an award
\* tag the award lists do not support are each reported, and stay as they are.
C10_EngineOnlyAdds ==
  /\ [][\A f \in Folders : RootOf(files[f]).ok => OnlyAdds(files[f], files'[f])]_vars
  /\ [](TagStepDone =>
          /\ TitleDiffers(files[loc.folder]) => <<i - 1, "title_diff">> \in diags
          /\ HasStaleTag(files[loc.folder]) => <<i - 1, "irrelevant_tag">> \in diags)

\* an entry whose sidecar kept a differing title and a stale tag, both reported,
\* while tags were added to it
C10_MismatchesReportedAndKept ==
  /\ TagStepDone
  /\ lastOp.op = "tag" /\ lastOp.entry = i - 1
  /\ TitleDiffers(After) /\ <<i - 1, "title_diff">> \in diags
  /\ HasStaleTag(After) /\ <<i - 1, "irrelevant_tag">> \in diags
  /\ Document(After).title = <<"z">>

\* the override list has got one more row, for the entry of the loop
OverrideRowAdded ==
  overrideFile'.rows = Append(overrideFile.rows, Row(comma_less(loc.movie.title), loc.imdb_id))

\* C11: a sidecar with a playcount for a movie that is_watched denies is
\* reported and the question asked; the sidecar keeps its playcount;
\* watched_override.csv gets exactly one row with the entry's id on yes and is
\* left alone on no; nothing else ever changes watched_override.csv.
C11_ConflictOnlyGrowsOverride ==
  /\ [][overrideFile' # overrideFile =>
          /\ pc = "ask_override" /\ answers.override
          /\ Markers(files[loc.folder]) >= 1 /\ ~loc.is_watched
          /\ OverrideRowAdded]_vars
  /\ [][(pc = "ask_override" /\ pc' # "start") =>
          /\ files' = files
          /\ <<i, "override">> \in prompts'
          /\ IF answers.override THEN OverrideRowAdded ELSE overrideFile' = overrideFile]_vars
  /\ [](pc = "ask_override" =>
          /\ <<i, "watched_mismatch">> \in diags
          /\ Markers(files[loc.folder]) >= 1 /\ ~loc.is_watched)
  /\ [][(/\ pc = "call" /\ pc' \in {"add_playcount", "add_tag", "scan", "done"}
          /\ loc'.tmdb_movie.found /\ loc'.step \in {"add_playcount", "tags"}) =>
          ~(Markers(files[loc'.folder]) >= 1 /\ ~loc'.is_watched)]_vars
  /\ [](TagStepDone /\ loc.step = "ask_override" => Markers(files[loc.folder]) = 1)

\* the user said yes: the list is one row longer and the playcount still there
C11_ConflictConfirmed ==
  /\ TagStepDone /\ loc.step = "ask_override"
  /\ answers.override
  /\ <<i - 1, "override">> \in prompts /\ <<i - 1, "watched_mismatch">> \in diags
  /\ Len(overrideFile.rows) > Len(history.csv.rows)
  /\ overrideFile.rows[Len(overrideFile.rows)][2] = loc.imdb_id
  /\ Markers(files[loc.folder]) = 1

\* the movie lines 505-517 resolve an entry to, from its filename and its sidecar
Resolved(entry) ==
  LET hint == parse_movie_nfo_imdb(files[entry.folder])
  IN IF hint.id # "" THEN get_movie_by_imdb_id(hint.id) ELSE find_tmdb_movie(entry.movie)

NotFoundKinds == {"no_movie_for_id", "not_found", "no_imdb_id"}

\* the loop stands where a file is written or a question asked
AtMutation ==
  \/ pc \in {"prompt_create", "ask_override", "add_playcount", "add_tag"}
  \/ pc = "call" /\ call = "credits"

\* C12: an entry that get_movie_by_imdb_id or find_tmdb_movie returns None for
\* ends there with an error printed: the loop goes to the next entry, no
\* question is asked, and neither a movie.nfo nor watched_override.csv is
\* created or changed for it.
C12_NotFoundLeavesFilesAlone ==
  /\ [][(pc = "call" /\ pc' \in {"scan", "done"} /\ ~loc'.tmdb_movie.found) =>
          /\ i' = i + 1
          /\ \E kind \in NotFoundKinds : <<i, kind>> \in diags'
          /\ files' = files /\ overrideFile' = overrideFile /\ prompts' = prompts]_vars
  /\ [][(files' # files \/ overrideFile' # overrideFile \/ prompts' # prompts) =>
          (AtMutation \/ pc' = "start")]_vars
  /\ [](AtMutation => Resolved(filepaths[i]).found)

\* an entry whose sidecar names an id TMDb does not know has been passed over
C12_SkippedNotFound ==
  /\ pc \in {"scan", "done"}
  /\ loc.movie.matched /\ ~loc.tmdb_movie.found
  /\ <<i - 1, "no_movie_for_id">> \in diags
  /\ ~Resolved(filepaths[i - 1]).found
  /\ files = history.files /\ overrideFile = history.csv /\ prompts = {}

\* the loop body has computed is_watched for the movie in loc.tmdb_movie
Reconciled == loc.tmdb_movie.found /\ loc.tmdb_movie.imdb_id # "" /\ loc.step # "none"

InBulkExport(tmdb_movie) ==
  \E k \in 1..Len(letterboxd_movies) :
    /\ are_roughly_equals(letterboxd_movies[k].title, tmdb_movie.original_title)
    /\ letterboxd_movies[k].year = tmdb_movie.release_year

\* C14: is_watched is true exactly when a row of the bulk export has a title
\* roughly equal to the original title of the resolved movie and its release
\* year, or the movie's imdb id is in the loaded override list; the title and
\* year of the filename are not looked at.
C14_IsWatchedIsEitherSignal ==
  Reconciled =>
    /\ loc.is_watched <=>
         (InBulkExport(loc.tmdb_movie) \/ InSeq(loc.tmdb_movie.imdb_id, override_watched_movies))
    /\ loc.letterboxd_watched <=> InBulkExport(loc.tmdb_movie)

\* watched by the bulk export alone, under a filename whose title and year match
\* no row
C14_WatchedByExportAlone ==
  /\ Reconciled /\ pc # "start"
  /\ loc.is_watched
  /\ ~InSeq(loc.tmdb_movie.imdb_id, override_watched_movies)
  /\ loc.movie.matched
  /\ \A k \in 1..Len(letterboxd_movies) :
       ~are_roughly_equals(letterboxd_movies[k].title, loc.movie.title)
         /\ letterboxd_movies[k].year # loc.movie.year
  /\ letterboxd_movies # <<>>

\* result k of the search qualifies for the title and year of the filename
Qualifies(k, movie) ==
  /\ \/ Casefold(Catalog[k].title) = Casefold(movie.title)
     \/ Casefold(Catalog[k].original_title) = Casefold(movie.title)
  /\ Catalog[k].release_year = movie.year

FirstQualifying(k, movie) ==
  Qualifies(k, movie) /\ \A j \in 1..(k - 1) : ~Qualifies(j, movie)

\* the step answers the pending call: it is neither a wait, nor an error of the
\* provider, nor the end of the process
Answered(name) ==
  /\ pc = "call" /\ call = name
  /\ pc' \notin {"sleep", "start"}
  /\ ~(pc' = "aborted" /\ exc' = "RequestException")

LastLine(f) ==
  IF f.exists /\ f.lines # <<>> /\ f.lines[Len(f.lines)].kind = "text"
    THEN Strip(f.lines[Len(f.lines)].text)
    ELSE <<>>

\* URLs of the title page of an id that are not the canonical one
NearMisses(id) ==
  { <<"http://", "www.", "imdb.com/title/", id>>,
    <<"https://", "imdb.com/title/", id>>,
    <<"http://", "imdb.com/title/", id>>,
    <<"https://", "www.", "imdb.com/title/", id, "/">>,
    <<"http://", "www.", "imdb.com/title/", id, "/">>,
    <<"https://", "imdb.com/title/", id, "/">>,
    <<"http://", "imdb.com/title/", id, "/">> }

\* C16: the loop takes an id from the sidecar only when its last line is
\* https://www.imdb.com/title/<id>; a last line that is the same page under
\* http, without www or with a slash at the end gives no id, is reported, and
\* the entry is then looked up by the title and year of its filename.
C16_OnlyCanonicalUrlIsHint ==
  [][(pc = "scan" /\ pc' # "start") =>
       LET last == LastLine(files[filepaths[i].folder])
       IN /\ loc'.imdb_id # "" <=> (\E id \in ImdbIds : last = ImdbUrl(id))
          /\ loc'.imdb_id # "" => last = ImdbUrl(loc'.imdb_id)
          /\ (\E id \in ImdbIds : last \in NearMisses(id)) =>
               /\ loc'.imdb_id = ""
               /\ <<i, "poor_url">> \in diags'
               /\ filepaths[i].movie.matched => pc' = "call" /\ call' = "search"]_vars

\* the sidecar ends with http://imdb.com/title/tt1/ and the entry, looked up by
\* its filename, was not found: tt1 was not used
C16_NearMissNotUsed ==
  /\ pc \in {"scan", "done"}
  /\ loc.movie.matched /\ ~loc.tmdb_movie.found
  /\ LastLine(files[loc.folder]) \in NearMisses("tt1")
  /\ <<i - 1, "poor_url">> \in diags /\ <<i - 1, "not_found">> \in diags

\* a page of https://www.themoviedb.org/
ThemoviedbUrl(t) ==
  Len(t) >= 3 /\ t[1] = "https://" /\ t[2] = "www." /\ t[3] = "themoviedb.org/"

\* C17: a sidecar whose last line is a themoviedb.org URL gives no id and no
\* error is printed for its last line.
C17_ThemoviedbUrlIsSilent ==
  \A k \in 1..Len(filepaths) :
    ThemoviedbUrl(LastLine(files[filepaths[k].folder])) =>
      /\ <<k, "invalid_url">> \notin diags
      /\ <<k, "poor_url">> \notin diags
      /\ (pc = "call" /\ i = k) => call # "find"

\* C18: for a file whose name parse_title_and_year does not match nothing is
\* printed, no provider call is made and no file is created or changed,
\* whatever the movie.nfo of its folder is.
C18_UnmatchedNameIsSilent ==
  \A k \in 1..Len(filepaths) :
    ~filepaths[k].movie.matched =>
      /\ \A d \in diags : d[1] # k
      /\ \A q \in prompts : q[1] # k
      /\ i = k => pc \in {"scan", "start", "done", "aborted"}
      /\ lastOp.entry # k

\* lines 498-500 have just run to their end
JustLoaded == pc = "scan" /\ i = 1 /\ loc = IdleLoc

\* the rows after the header
DataRows(csv) == IF csv.exists /\ csv.rows # <<>> THEN Tail(csv.rows) ELSE <<>>

GoodLetterboxdRow(row) == Len(row) = 4 /\ IsInt(row[3])

GoodIdRow(row) == Len(row) = 2

\* C19: a row of a record source with the wrong number of fields, or with a
\* year that is no number, is printed and skipped: the rows that are well
\* formed, before and after it, are loaded and the run goes on.
C19_MalformedRowsSkipped ==
  /\ pc = "aborted" => exc # "ValueError"
  /\ JustLoaded =>
       LET good == SelectSeq(DataRows(letterboxdFile), GoodLetterboxdRow)
           ids == SelectSeq(DataRows(overrideFile), GoodIdRow)
       IN /\ Len(letterboxd_movies) = Len(good)
          /\ \A k \in 1..Len(good) :
               letterboxd_movies[k] = [title |-> good[k][2], year |-> int(good[k][3])]
          /\ Len(override_watched_movies) = Len(ids)
          /\ \A k \in 1..Len(ids) : override_watched_movies[k] = ids[k][2]
          /\ (Len(good) < Len(DataRows(letterboxdFile))
                \/ Len(ids) < Len(DataRows(overrideFile))) =>
               <<0, "invalid_row">> \in diags

\* C20: a run started without watched_override.csv goes on with no override
\* id; the file, once there, starts with the header row, and the rows it had
\* stay as they are, in place, when rows are added.
C20_OverrideListFromNothing ==
  /\ pc = "aborted" => exc # "FileNotFoundError"
  /\ (JustLoaded /\ ~overrideFile.exists) => override_watched_movies = <<>>
  /\ overrideFile.exists =>
       /\ overrideFile.rows[1] = HeaderRow
       /\ history.csv.exists => IsPrefix(history.csv.rows, overrideFile.rows)

-----------------------------------------------------------------------------
(* The writes of the sidecar store step by step: open(path, 'w') empties the  *)
(* file, the f.write calls fill it, leaving the with block closes it; the     *)
(* process may be stopped in between                                          *)

\* the file the call recorded in lastOp leaves when it runs to its end
Target ==
  IF lastOp.op = "create"
    THEN create_movie_nfo(lastOp.title, lastOp.imdb_id, lastOp.watched)
  ELSE IF lastOp.op = "playcount" THEN add_playcount_to_nfo(lastOp.before).file
  ELSE IF lastOp.op = "tag" THEN add_tag_to_movie_nfo(lastOp.before, lastOp.tag).file
  ELSE lastOp.before

\* the first n lines of f, the last of them ended by its newline
Truncated(f, n) == [exists |-> TRUE, lines |-> SubSeq(f.lines, 1, n), nl |-> n > 0]

\* open(filepath, 'w') in create_movie_nfo (line 277)
OpenToCreate ==
  /\ pc = "store"
  /\ \E title \in {<<"a">>, <<"a", "&", "b">>}, imdb_id \in {"tt1"}, watched \in BOOLEAN :
       lastOp' = [NoOp EXCEPT !.op = "create", !.folder = 1, !.before = files[1],
                              !.title = title, !.imdb_id = imdb_id, !.watched = watched,
                              !.ret = TRUE, !.prev = lastOp.op]
  /\ files' = [files EXCEPT ![1] = Truncated(files[1], 0)]
  /\ pc' = "writing"
  /\ UNCHANGED <<worldVars, mainVarsButPc>>

\* open(nfo_path, 'w') in add_playcount_to_nfo (line 466), reached when the
\* document was read and has no playcount
OpenToAddPlaycount ==
  /\ pc = "store"
  /\ Len(files[1].lines) < MaxLines
  /\ add_playcount_to_nfo(files[1]).ret
  /\ lastOp' = [NoOp EXCEPT !.op = "playcount", !.folder = 1, !.before = files[1],
                            !.ret = TRUE, !.prev = lastOp.op]
  /\ files' = [files EXCEPT ![1] = Truncated(files[1], 0)]
  /\ pc' = "writing"
  /\ UNCHANGED <<worldVars, mainVarsButPc>>

\* open(nfo_path, 'w') in add_tag_to_movie_nfo (line 403), reached when the
\* document was read
OpenToAddTag ==
  /\ pc = "store"
  /\ Len(files[1].lines) < MaxLines
  /\ \E tag_value \in StoreTags :
       /\ add_tag_to_movie_nfo(files[1], tag_value).ret
       /\ lastOp' = [NoOp EXCEPT !.op = "tag", !.folder = 1, !.before = files[1],
                                 !.tag = tag_value, !.ret = TRUE, !.prev = lastOp.op]
  /\ files' = [files EXCEPT ![1] = Truncated(files[1], 0)]
  /\ pc' = "writing"
  /\ UNCHANGED <<worldVars, mainVarsButPc>>

\* the f.write calls have run and the with block is left: the file is complete
CloseFile ==
  /\ pc = "writing"
  /\ files' = [files EXCEPT ![1] = Target]
  /\ pc' = "store"
  /\ UNCHANGED <<lastOp, worldVars, mainVarsButPc>>

\* the process is stopped, or a write raises, while the file is open: what was
\* flushed of the lines written so far stays, none of them or the first n
StopWhileWriting ==
  /\ pc = "writing"
  /\ \E n \in 0..(Len(Target.lines) - 1) :
       files' = [files EXCEPT ![1] = Truncated(Target, n)]
  /\ pc' = "stopped"
  /\ UNCHANGED <<lastOp, worldVars, mainVarsButPc>>

\* the program is started again on the file as it was left
StartAgain ==
  /\ pc = "stopped"
  /\ pc' = "store"
  /\ UNCHANGED <<files, lastOp, worldVars, mainVarsButPc>>

NextCrash ==
  \/ OpenToCreate
  \/ OpenToAddPlaycount
  \/ OpenToAddTag
  \/ CloseFile
  \/ StopWhileWriting
  \/ StartAgain

SpecCrash == InitStore /\ [][NextCrash]_vars

\* C13: when the process stops or a write fails during create_movie_nfo,
\* add_tag_to_movie_nfo or add_playcount_to_nfo, the path holds the whole old
\* file or the whole new one.
C13_WriteAllOrNothing ==
  pc = "stopped" => (files[1] = lastOp.before \/ files[1] = Target)

====
